---- MODULE Spec2Model ----
(***************************************************************************)
(* ResearchBot: the self-reflective research loop of research-bot-v4       *)
(* (plan -> retrieve -> synthesize -> reflect -> {retrieve | END}) and the *)
(* supervisor-coordinated multi-agent system of research-bot-v5/v6.        *)
(*                                                                         *)
(* Strings are sequences of one-character strings where the code parses    *)
(* them (the Reflector's score text); a confidence is an integer count of  *)
(* units of 1/Scale, so that 0.6 is ThresholdTenths * Scale / 10.          *)
(***************************************************************************)
EXTENDS Integers, Sequences, FiniteSets, TLC

VARIABLES
    \* ---- research-bot-v4: ResearchBotState and the graph's position ----
    entry,            \* "research" (ResearchBot.research) or "graph" (self.graph.invoke)
    node,             \* the node the graph runs next, or "end" / "returned" / "failed"
    research_plan,    \* None or a sequence of sub-questions
    sources,          \* sequence of [content, metadata, query]
    findings,         \* None or a string
    confidence,       \* None or an integer in units of 1/Scale
    iteration,
    max_iterations,
    kb,               \* the documents indexed in the vector store
    returned,         \* what research() returned, None before it returns
    max_iterations_arg, \* the ceiling the caller asks for: << n >>, or << >> when it gives none
    \* ---- history of the request (not read by the program) ----
    passes,           \* how many times each node has run
    low_passes,       \* reflect passes that scored below the threshold
    reflected,        \* the findings the last reflect pass evaluated
    score_kind,       \* how the last score text reads as a number
    score_matched,    \* "token" / "no_token": whether the last score text held a token of the pattern
    failed_queries,   \* the queries (by position) whose search raised in the last retrieve pass
    searched,         \* the queries the last retrieve pass has searched, in order
    first_retrieval,  \* the queries, failures and sources of the request's first retrieve pass
    found_sources,    \* whether some retrieve pass has returned sources
    \* ---- research-bot-v4: the deduplication of _retrieval_node on its own ----
    all_sources,      \* the list the deduplication reads
    unique_sources,   \* the list it has built, None before its first pass
    dedupe_passes,    \* how many times it has run
    \* ---- research-bot-v5 / v6: one request in the supervisor's graph ----
    version,          \* "v5" (no memory tools) or "v6"
    active,           \* the node whose model speaks next, or "END" / "failed"
    events,           \* the supervisor's handoffs and memory tool calls, in order
    retrieval_callers, \* the nodes that have run search_documents
    \* ---- research-bot-v6: two requests on the shared memory store ----
    mem_arg,          \* the user_id argument of each request
    mem_user,         \* config["configurable"]["user_id"] of each request
    mem_at,           \* "idle", "running", "done" for each request
    mem_ops,          \* the memory tool calls each request has made
    mem_seen,         \* the items search_memory has returned to each request
    \* ---- single calls checked on their own ----
    plan_text,        \* a completion of the planner, as a sequence of tokens
    sub_questions,    \* what _planning_node makes of it
    planned,          \* "no" before the planner has parsed plan_text, then "yes"
    ix_version,       \* "03" (research-bot-03) or "v4" (research-bot-v4, v5, v6)
    ix_files,         \* the files glob returns to index_documents
    ix_store,         \* the chunks in the vector store
    ix_result,        \* how index_documents ended
    final_messages,   \* result["messages"] of a multi-agent request that has ended
    answer,           \* what research returns for it, None before it returns
    memory_store,     \* InMemoryStore: namespace -> key -> item
    messages,         \* the transcript of each request: state["messages"]
    mem_prior         \* the transcript an earlier request had left when each request started

loopVars ==
    << entry, node, research_plan, sources, findings, confidence, iteration,
       max_iterations, kb, returned, max_iterations_arg, passes, low_passes,
       reflected, score_kind, score_matched, failed_queries, searched,
       first_retrieval, found_sources >>

agentVars == << version, active, events, retrieval_callers >>

memVars ==
    << mem_arg, mem_user, mem_at, mem_ops, mem_seen, memory_store, messages, mem_prior >>

dedupeVars == << all_sources, unique_sources, dedupe_passes >>

unitVars ==
    << plan_text, sub_questions, planned, ix_version, ix_files, ix_store, ix_result,
       final_messages, answer >>

vars == << loopVars, agentVars, memVars, dedupeVars, unitVars >>

None == "<None>"

-----------------------------------------------------------------------------
(* Bounds of the model *)

MaxTextLen == 3
MaxIter == 2
MaxEvents == 5
MaxMemOps == 2
MaxSources == 3
MaxPlanLen == 4
MaxFiles == 3
MaxChunks == 2
MaxMessages == 4

(* Program constants *)

ThresholdTenths == 6
DefaultConfidenceTenths == 7
DefaultMaxIterations == 3
TopK == 5
PrefixLen == 200

-----------------------------------------------------------------------------
(* Small helpers *)

Min(a, b) == IF a < b THEN a ELSE b
Max(a, b) == IF a > b THEN a ELSE b

RECURSIVE Pow10(_)
Pow10(n) == IF n = 0 THEN 1 ELSE 10 * Pow10(n - 1)

BoundedSeq(S, n) == UNION { [1..k -> S] : k \in 0..n }

\* The longest score text has one "." and MaxTextLen - 1 fractional digits.
FracDigits == MaxTextLen - 1
Scale == Pow10(FracDigits)
Threshold == ThresholdTenths * (Scale \div 10)
DefaultConfidence == DefaultConfidenceTenths * (Scale \div 10)

-----------------------------------------------------------------------------
(* The Reflector's score parsing: _reflection_node, lines 223-231 *)

Digits == {"0", "1", "6"}
Alphabet == Digits \cup {".", "-"}
ScoreTexts == BoundedSeq(Alphabet, MaxTextLen)

DigitVal(c) ==
    CASE c = "0" -> 0 [] c = "1" -> 1 [] c = "6" -> 6

\* The last index of the run of digits ( \d+ , greedy) that starts at i.
RECURSIVE DigitRunEnd(_, _)
DigitRunEnd(t, i) ==
    IF i + 1 <= Len(t) /\ t[i + 1] \in Digits THEN DigitRunEnd(t, i + 1) ELSE i

\* re.match of  0?\.\d+|1\.0|0|1  at index i: the matched token, or << >>.
\* The alternatives are tried in order; 0? is greedy and backtracks.
MatchAt(t, i) ==
    IF t[i] = "0" /\ i + 2 <= Len(t) /\ t[i + 1] = "." /\ t[i + 2] \in Digits
        THEN SubSeq(t, i, DigitRunEnd(t, i + 2))
    ELSE IF t[i] = "." /\ i + 1 <= Len(t) /\ t[i + 1] \in Digits
        THEN SubSeq(t, i, DigitRunEnd(t, i + 1))
    ELSE IF i + 2 <= Len(t) /\ SubSeq(t, i, i + 2) = << "1", ".", "0" >>
        THEN << "1", ".", "0" >>
    ELSE IF t[i] = "0" THEN << "0" >>
    ELSE IF t[i] = "1" THEN << "1" >>
    ELSE << >>

\* re.findall(...)[0]: the leftmost match, or << >> when findall returns [].
RECURSIVE FirstNumberFrom(_, _)
FirstNumberFrom(t, i) ==
    IF i > Len(t) THEN << >>
    ELSE IF MatchAt(t, i) # << >> THEN MatchAt(t, i)
    ELSE FirstNumberFrom(t, i + 1)

FirstNumber(t) == FirstNumberFrom(t, 1)

\* The value of the digits d1 d2 ... after the point, in units of 1/Scale.
RECURSIVE FracValue(_, _)
FracValue(ds, j) ==
    IF j > Len(ds) THEN 0
    ELSE DigitVal(ds[j]) * Pow10(FracDigits - j) + FracValue(ds, j + 1)

\* float(token) for a token of the pattern, in units of 1/Scale.
Float(tok) ==
    IF tok = << "0" >> THEN 0
    ELSE IF tok = << "1" >> THEN Scale
    ELSE IF tok[1] = "." THEN FracValue(Tail(tok), 1)
    ELSE IF tok[1] = "0" THEN FracValue(Tail(Tail(tok)), 1)
    ELSE Scale + FracValue(Tail(Tail(tok)), 1)

\* max(0.0, min(1.0, confidence))
Clamp(c) == Max(0, Min(Scale, c))

\* A Reflector that takes the first digit of the text as the score and does
\* not clamp it.
ParseConfidenceUnclamped(t) ==
    LET ds == SelectSeq(t, LAMBDA c : c \in Digits)
    IN  IF ds = << >> THEN DefaultConfidence ELSE DigitVal(ds[1]) * Scale

\* A Reflector whose score is 0.0 when the text holds no token.
ParseConfidenceDefaultsToZero(t) ==
    LET numbers == FirstNumber(t)
    IN  IF numbers = << >> THEN 0 ELSE Clamp(Float(numbers))

\* lines 225-231: numbers[0] if numbers else 0.7, then the clamp.
ParseConfidence(t) ==
    LET numbers == FirstNumber(t)
    IN  IF numbers = << >> THEN DefaultConfidence ELSE Clamp(Float(numbers))

\* How a score text reads as a decimal numeral (a reading of the input, used
\* only to tell the cases of the input apart; the program never computes it).
IsNumeral(t) ==
    /\ t # << >>
    /\ \A i \in 1..Len(t) : t[i] \in Digits \cup {"."}
    /\ Cardinality({ i \in 1..Len(t) : t[i] = "." }) <= 1
    /\ t[Len(t)] \in Digits

RECURSIVE IntValue(_)
IntValue(ds) ==
    IF ds = << >> THEN 0 ELSE 10 * IntValue(SubSeq(ds, 1, Len(ds) - 1)) + DigitVal(ds[Len(ds)])

NumeralValue(t) ==
    LET dots == { i \in 1..Len(t) : t[i] = "." }
        p == IF dots = {} THEN Len(t) + 1 ELSE CHOOSE i \in dots : TRUE
    IN  IntValue(SubSeq(t, 1, p - 1)) * Scale + FracValue(SubSeq(t, p + 1, Len(t)), 1)

ScoreKind(t) ==
    IF IsNumeral(t)
        THEN IF NumeralValue(t) > Scale THEN "above_one" ELSE "in_range"
    ELSE IF Len(t) >= 2 /\ t[1] = "-" /\ IsNumeral(Tail(t))
        THEN IF NumeralValue(Tail(t)) > 0 THEN "negative" ELSE "in_range"
    ELSE "not_a_number"

\* Every (reading, parsed confidence, whether findall returned a token) the
\* completion capability can produce.
ReflectOutcomes ==
    { << ScoreKind(t), ParseConfidence(t),
         IF FirstNumber(t) # << >> THEN "token" ELSE "no_token" >> : t \in ScoreTexts }

-----------------------------------------------------------------------------
(* The Query Planner's parsing: _planning_node, lines 119-124 *)

Question == "What was VaporWare?"

\* The text of one comma-separated segment of the marker's line.
SegTexts == {"", "None", "q1", " q2 "}

\* str.strip() and str.lower() on the segment texts.
Strip(x) == CASE x = " q2 " -> "q2" [] OTHER -> x
Lower(x) == CASE x = "None" -> "none" [] OTHER -> x

\* A completion of the planner: whether it holds the marker SUB_QUESTIONS:, and
\* the segments that split(",") yields for the rest of the marker's line.
Content(m, sg) == [marker |-> m, segs |-> sg]
PlannerContents ==
    { Content(FALSE, << "" >>),          \* no marker line
      Content(TRUE, << "None" >>),       \* SUB_QUESTIONS: None
      Content(TRUE, << "", "" >>),       \* SUB_QUESTIONS: ,
      Content(TRUE, << "q1" >>),         \* SUB_QUESTIONS: q1
      Content(TRUE, << "q1", " q2 " >>), \* SUB_QUESTIONS: q1, q2
      Content(TRUE, << " q2 ", "", "q1" >>) }

\* sq_line = ...strip(): a line of one segment is that segment stripped; a line
\* of several segments holds a comma, so it is neither empty nor "none".
LineIsNone(segs) ==
    Len(segs) = 1 /\ Lower(Strip(segs[1])) \in {"none", "n/a", ""}

PlanOf(content) ==
    IF ~content.marker THEN None
    ELSE IF LineIsNone(content.segs) THEN None
    ELSE SelectSeq([i \in 1..Len(content.segs) |-> Strip(content.segs[i])],
                   LAMBDA q : q # "")

-----------------------------------------------------------------------------
(* The Retrieval Adapter and the Source Deduplicator: _retrieval_node *)

\* A document's content is its first PrefixLen characters (head) and the rest.
Doc(h, r, f) == [content |-> [head |-> h, rest |-> r], metadata |-> [source |-> f]]
d1 == Doc("p1", "a", "f1.txt")
d2 == Doc("p1", "b", "f2.txt")
d3 == Doc("p2", "a", "f1.txt")
Docs == {d1, d2, d3}

\* The states of the vector store a request can find: nothing indexed, one
\* document, all of them.
KnowledgeBases == { {}, {d1}, Docs }

\* The relevance order of the documents for a query.
Ranking(q) ==
    CASE q = "q1" -> << d2, d3, d1 >>
      [] q = "q2" -> << d3, d1, d2 >>
      [] OTHER    -> << d1, d2, d3 >>

\* retriever.invoke(query): the TopK most relevant indexed documents.
Search(store, q) ==
    LET hits == SelectSeq(Ranking(q), LAMBDA d : d \in store)
    IN  SubSeq(hits, 1, Min(TopK, Len(hits)))

\* Queries that fall back on the question only when the plan is None.
QueriesOfKeepsEmptyList(plan) == IF plan = None THEN << Question >> ELSE plan

\* line 136: state.get("research_plan") or [state["research_query"]]
QueriesOf(plan) == IF plan = None \/ plan = << >> THEN << Question >> ELSE plan

\* Sources tagged with the request's question instead of the query searched.
TaggedWithQuestion(hits, q) ==
    [i \in 1..Len(hits) |->
        [content |-> hits[i].content, metadata |-> hits[i].metadata, query |-> Question]]

\* lines 142-147: one query's hits as sources tagged with the query.
Tagged(hits, q) ==
    [i \in 1..Len(hits) |->
        [content |-> hits[i].content, metadata |-> hits[i].metadata, query |-> q]]

\* A batch that the first search to raise aborts: the later queries are not
\* searched.
RECURSIVE AllSourcesAbortsOnFailure(_, _, _, _)
AllSourcesAbortsOnFailure(store, queries, failed, i) ==
    IF i > Len(queries) \/ i \in failed THEN << >>
    ELSE Tagged(Search(store, queries[i]), queries[i])
            \o AllSourcesAbortsOnFailure(store, queries, failed, i + 1)

\* lines 138-150: the hits of the queries whose search did not raise, in order.
RECURSIVE AllSources(_, _, _, _)
AllSources(store, queries, failed, i) ==
    IF i > Len(queries) THEN << >>
    ELSE (IF i \in failed THEN << >> ELSE Tagged(Search(store, queries[i]), queries[i]))
            \o AllSources(store, queries, failed, i + 1)

\* A key made of the whole content: hash(source["content"]).
ContentHashOfWholeContent(source) == source.content

\* line 156: hash(source["content"][:200]); equal prefixes hash equal, and the
\* hash of distinct prefixes is taken to be distinct.
ContentHash(source) == source.content.head

\* A deduplication that empties seen_content whenever it drops a source.
RECURSIVE DedupeFromForgetsSeen(_, _, _)
DedupeFromForgetsSeen(srcs, i, seen_content) ==
    IF i > Len(srcs) THEN << >>
    ELSE IF ContentHash(srcs[i]) \notin seen_content
        THEN << srcs[i] >>
                \o DedupeFromForgetsSeen(srcs, i + 1, seen_content \cup {ContentHash(srcs[i])})
    ELSE DedupeFromForgetsSeen(srcs, i + 1, {})

\* A deduplication that keeps the last source of each key instead of the first.
RECURSIVE DedupeFromKeepsLast(_, _, _)
DedupeFromKeepsLast(srcs, i, seen_content) ==
    IF i > Len(srcs) THEN << >>
    ELSE IF \A j \in (i + 1)..Len(srcs) : ContentHash(srcs[j]) # ContentHash(srcs[i])
        THEN << srcs[i] >> \o DedupeFromKeepsLast(srcs, i + 1, seen_content)
    ELSE DedupeFromKeepsLast(srcs, i + 1, seen_content)

\* lines 153-159
RECURSIVE DedupeFrom(_, _, _)
DedupeFrom(srcs, i, seen_content) ==
    IF i > Len(srcs) THEN << >>
    ELSE IF ContentHash(srcs[i]) \notin seen_content
        THEN << srcs[i] >>
                \o DedupeFrom(srcs, i + 1, seen_content \cup {ContentHash(srcs[i])})
    ELSE DedupeFrom(srcs, i + 1, seen_content)

Dedupe(srcs) == DedupeFrom(srcs, 1, {})

\* The deduplication applied to any list of sources, and applied again to the
\* list it has built.
Queries == {"q1", "q2"}
SourceSet == { [content |-> d.content, metadata |-> d.metadata, query |-> q] :
                  d \in Docs, q \in Queries }

DedupeOff ==
    /\ all_sources = << >>
    /\ unique_sources = None
    /\ dedupe_passes = 0

DedupeInit ==
    /\ all_sources \in BoundedSeq(SourceSet, MaxSources)
    /\ unique_sources = None
    /\ dedupe_passes = 0

DedupePass ==
    /\ dedupe_passes = 0
    /\ unique_sources' = Dedupe(all_sources)
    /\ dedupe_passes' = 1
    /\ UNCHANGED << all_sources, loopVars, agentVars, memVars, unitVars >>

DedupeAgain ==
    /\ dedupe_passes = 1
    /\ unique_sources' = Dedupe(unique_sources)
    /\ dedupe_passes' = 2
    /\ UNCHANGED << all_sources, loopVars, agentVars, memVars, unitVars >>

DedupeNext ==
    \/ DedupePass
    \/ DedupeAgain

-----------------------------------------------------------------------------
(* The Synthesizer: _synthesis_node *)

Apology == "I couldn't find any relevant information in my knowledge base ..."
SynthOutputs == {"findings A [1]", "findings B [1][2]"}

-----------------------------------------------------------------------------
(* The graph: _build_graph and _should_continue *)

\* lines 278, 281, 284: the unconditional edges.
EdgeAfterPlan == "retrieve"
EdgeAfterRetrieveSkipsSynthesize == "reflect"
EdgeAfterRetrieve == "synthesize"
EdgeAfterSynthesizeSkipsReflect == "end"
EdgeAfterSynthesize == "reflect"

\* Variants of the routing: no ceiling test, a ceiling test that is off by
\* one, a confidence test that is not strict.
ShouldContinueNoCeiling(it, mx, conf) ==
    IF conf < Threshold THEN "retrieve" ELSE "end"

ShouldContinueOffByOne(it, mx, conf) ==
    IF it > mx THEN "end"
    ELSE IF conf < Threshold THEN "retrieve"
    ELSE "end"

ShouldContinueNotStrict(it, mx, conf) ==
    IF it >= mx THEN "end"
    ELSE IF conf <= Threshold THEN "retrieve"
    ELSE "end"

\* A routing that retries at the default confidence too.
ShouldContinueRetriesAtDefault(it, mx, conf) ==
    IF it >= mx THEN "end"
    ELSE IF conf <= DefaultConfidence THEN "retrieve"
    ELSE "end"

\* lines 246-256
ShouldContinue(it, mx, conf) ==
    IF it >= mx THEN "end"
    ELSE IF conf < Threshold THEN "retrieve"
    ELSE "end"

\* A conditional edge that restarts from the planner.
EdgeAfterReflectReplans(route) == IF route = "retrieve" THEN "plan" ELSE "end"

\* lines 287-294: the mapping of the conditional edge out of "reflect".
EdgeAfterReflect(route) == IF route = "retrieve" THEN "retrieve" ELSE "end"

\* A sources channel that appends what a node returns to what it holds.
UpdateSourcesAppends(old, new) == Dedupe(old \o new)

\* line 161: return {"sources": unique_sources}; ResearchBotState declares
\* sources without a reducer, so the returned list replaces the old one.
UpdateSources(old, new) == new

\* An iteration counter that counts two for a pass.
NextIterationByTwo(it) == it + 2

\* line 235: state.get("iteration", 0) + 1
NextIteration(it) == it + 1

Ran(n) == [passes EXCEPT ![n] = @ + 1]
Called(p) == [p EXCEPT !["llm"] = @ + 1]

\* What a retrieve pass has done: the queries searched, the ones whose search
\* raised, and the sources returned.
Retrieval(queries, failed, srcs) == [queries |-> queries, failed |-> failed, sources |-> srcs]
NoRetrieval == Retrieval(<< >>, {}, << >>)

\* research(question) takes no ceiling: a call that names one raises a
\* TypeError before the graph runs. graph.invoke takes the ceiling in the state.
ResearchAccepts(arg) == arg = << >>

LoopInit ==
    /\ entry \in {"research", "graph"}
    /\ max_iterations \in (IF entry = "research" THEN {DefaultMaxIterations} ELSE 1..MaxIter)
    /\ max_iterations_arg \in (IF entry = "research"
                                  THEN {<< >>} \cup { << n >> : n \in 1..MaxIter }
                                  ELSE { << max_iterations >> })
    /\ kb \in KnowledgeBases
    /\ node = (IF entry = "research" /\ ~ResearchAccepts(max_iterations_arg)
                  THEN "failed" ELSE "plan")
    /\ research_plan = None
    /\ sources = << >>
    /\ findings = None
    /\ confidence = None
    /\ iteration = 0
    /\ returned = None
    /\ passes = [plan |-> 0, retrieve |-> 0, synthesize |-> 0, reflect |-> 0, llm |-> 0]
    /\ low_passes = 0
    /\ reflected = None
    /\ score_kind = None
    /\ score_matched = None
    /\ failed_queries = {}
    /\ searched = << >>
    /\ first_retrieval = NoRetrieval
    /\ found_sources = FALSE

\* No request runs in the loop of research-bot-v4.
LoopOff ==
    /\ entry = "off"
    /\ max_iterations = DefaultMaxIterations
    /\ max_iterations_arg = << >>
    /\ kb = {}
    /\ node = "off"
    /\ research_plan = None
    /\ sources = << >>
    /\ findings = None
    /\ confidence = None
    /\ iteration = 0
    /\ returned = None
    /\ passes = [plan |-> 0, retrieve |-> 0, synthesize |-> 0, reflect |-> 0, llm |-> 0]
    /\ low_passes = 0
    /\ reflected = None
    /\ score_kind = None
    /\ score_matched = None
    /\ failed_queries = {}
    /\ searched = << >>
    /\ first_retrieval = NoRetrieval
    /\ found_sources = FALSE

\* _planning_node: one completion call, then the plan.
Plan ==
    /\ node = "plan"
    /\ \E content \in PlannerContents : research_plan' = PlanOf(content)
    /\ passes' = Called(Ran("plan"))
    /\ node' = EdgeAfterPlan
    /\ UNCHANGED << entry, sources, findings, confidence, iteration, max_iterations,
                    kb, returned, low_passes, reflected, score_kind,
                    score_matched, failed_queries, max_iterations_arg,
                    searched, first_retrieval, found_sources >>
    /\ UNCHANGED << agentVars, memVars, dedupeVars, unitVars >>

\* _retrieval_node: a search per query (one that raises is skipped), then the
\* deduplication; sources is replaced.
Retrieve ==
    /\ node = "retrieve"
    /\ \E failed \in SUBSET (1..Len(QueriesOf(research_plan))) :
          LET queries == QueriesOf(research_plan)
              unique == Dedupe(AllSources(kb, queries, failed, 1))
          IN  /\ sources' = UpdateSources(sources, unique)
              /\ failed_queries' = failed
              /\ searched' = queries
              /\ first_retrieval' = IF passes.retrieve = 0
                                        THEN Retrieval(queries, failed, unique)
                                        ELSE first_retrieval
              /\ found_sources' = (found_sources \/ unique # << >>)
    /\ passes' = Ran("retrieve")
    /\ node' = EdgeAfterRetrieve
    /\ UNCHANGED << entry, research_plan, findings, confidence, iteration,
                    max_iterations, kb, returned, low_passes, reflected, score_kind,
                    score_matched, max_iterations_arg >>
    /\ UNCHANGED << agentVars, memVars, dedupeVars, unitVars >>

\* A synthesizer without the short-circuit of lines 170-173: it asks the
\* completion capability whatever sources holds.
SynthesizeAlwaysCalls ==
    /\ node = "synthesize"
    /\ findings' \in SynthOutputs
    /\ passes' = Called(Ran("synthesize"))
    /\ node' = EdgeAfterSynthesize
    /\ UNCHANGED << entry, research_plan, sources, confidence, iteration,
                    max_iterations, kb, returned, low_passes, reflected, score_kind,
                    score_matched, failed_queries, max_iterations_arg,
                    searched, first_retrieval, found_sources >>
    /\ UNCHANGED << agentVars, memVars, dedupeVars, unitVars >>

\* _synthesis_node: the fixed apology without a completion call when sources is
\* empty, otherwise one completion call.
Synthesize ==
    /\ node = "synthesize"
    /\ IF sources = << >>
          THEN /\ findings' = Apology
               /\ passes' = Ran("synthesize")
          ELSE /\ findings' \in SynthOutputs
               /\ passes' = Called(Ran("synthesize"))
    /\ node' = EdgeAfterSynthesize
    /\ UNCHANGED << entry, research_plan, sources, confidence, iteration,
                    max_iterations, kb, returned, low_passes, reflected, score_kind,
                    score_matched, failed_queries, max_iterations_arg,
                    searched, first_retrieval, found_sources >>
    /\ UNCHANGED << agentVars, memVars, dedupeVars, unitVars >>

\* _reflection_node, then the conditional edge _should_continue on the updated
\* state.
Reflect ==
    /\ node = "reflect"
    /\ \E o \in ReflectOutcomes :
          /\ score_kind' = o[1]
          /\ score_matched' = o[3]
          /\ confidence' = o[2]
          /\ low_passes' = IF o[2] < Threshold THEN low_passes + 1 ELSE low_passes
          /\ node' = EdgeAfterReflect(
                        ShouldContinue(NextIteration(iteration), max_iterations, o[2]))
    /\ iteration' = NextIteration(iteration)
    /\ reflected' = findings
    /\ passes' = Called(Ran("reflect"))
    /\ UNCHANGED << entry, research_plan, sources, findings, max_iterations, kb, returned,
                    failed_queries, max_iterations_arg,
                    searched, first_retrieval, found_sources >>
    /\ UNCHANGED << agentVars, memVars, dedupeVars, unitVars >>

\* self.llm.invoke raises in a node that calls it: no node catches it (the
\* try of _reflection_node starts after the call), so graph.invoke raises.
CompletionFails ==
    /\ \/ node \in {"plan", "reflect"}
       \/ node = "synthesize" /\ sources # << >>
    /\ node' = "failed"
    /\ passes' = Called(passes)
    /\ UNCHANGED << entry, research_plan, sources, findings, confidence, iteration,
                    max_iterations, kb, returned, low_passes, reflected, score_kind,
                    score_matched, failed_queries, max_iterations_arg,
                    searched, first_retrieval, found_sources >>
    /\ UNCHANGED << agentVars, memVars, dedupeVars, unitVars >>

\* line 357: the default of result.get("findings", ...)
NoInfo == "I wasn't able to find relevant information for your query."

\* The state graph.invoke returns: every key of initial_state, with the
\* values the nodes have written.
Result ==
    [research_plan |-> research_plan, sources |-> sources, findings |-> findings,
     confidence |-> confidence, iteration |-> iteration,
     max_iterations |-> max_iterations]

\* A get that answers with its default whatever the state holds.
StateGetIgnoresState(st, key, default) == default

\* dict.get(key, default): the default only when the key is missing.
StateGet(st, key, default) == IF key \in DOMAIN st THEN st[key] ELSE default

\* research, line 357: result.get("findings", ...).
Return ==
    /\ node = "end"
    /\ entry = "research"
    /\ returned' = StateGet(Result, "findings", NoInfo)
    /\ node' = "returned"
    /\ UNCHANGED << entry, research_plan, sources, findings, confidence, iteration,
                    max_iterations, kb, passes, low_passes, reflected, score_kind,
                    score_matched, failed_queries, max_iterations_arg,
                    searched, first_retrieval, found_sources >>
    /\ UNCHANGED << agentVars, memVars, dedupeVars, unitVars >>

Next ==
    \/ Plan
    \/ Retrieve
    \/ Synthesize
    \/ Reflect
    \/ CompletionFails
    \/ Return

-----------------------------------------------------------------------------
(* research-bot-v5 / v6: the supervisor's graph, _build_multi_agent_system *)

Supervisor == "supervisor"

\* agents=[query_analyst, document_researcher, report_writer]
Agents == << "query_analyst", "document_researcher", "report_writer" >>
AgentNames == { Agents[i] : i \in 1..Len(Agents) }

AllTools == {"search_documents", "manage_memory", "search_memory"}

\* A tool set in which every specialist is given the search tool.
ToolsOfSearchEverywhere(v, role) ==
    IF role = Supervisor
        THEN (IF v = "v6" THEN {"manage_memory", "search_memory"} ELSE {})
        ELSE {"search_documents"}

\* The tools=[...] of each create_agent call and of create_supervisor.
ToolsOf(v, role) ==
    CASE role = "query_analyst"       -> {}
      [] role = "document_researcher" -> {"search_documents"}
      [] role = "report_writer"       -> {}
      [] role = Supervisor            ->
            IF v = "v6" THEN {"manage_memory", "search_memory"} ELSE {}

\* Nothing of the multi-agent system runs.
AgentsOff ==
    /\ version = "v5"
    /\ active = "off"
    /\ events = << >>
    /\ retrieval_callers = {}

\* research(): graph.invoke({"messages": [HumanMessage(question)]}); the graph
\* starts at the supervisor.
AgentsInit ==
    /\ version \in {"v5", "v6"}
    /\ active = Supervisor
    /\ events = << >>
    /\ retrieval_callers = {}

Speaking == active \in AgentNames \cup {Supervisor}

\* The supervisor's completion calls the handoff tool transfer_to_<role>:
\* create_supervisor gives it one such tool per agent, and which one it calls,
\* and when, is the completion's choice (the prompt asks for an order).
SupervisorDelegates(role) ==
    /\ active = Supervisor
    /\ Len(events) < MaxEvents
    /\ active' = role
    /\ events' = Append(events, role)
    /\ UNCHANGED << version, retrieval_callers, loopVars, memVars, dedupeVars, unitVars >>

\* The completion of the active node asks for a tool by name. The tool runs
\* when it is one of the node's tools; a name that is not is answered with an
\* error message and nothing runs.
CallsTool(tool) ==
    /\ Speaking
    /\ IF tool \notin ToolsOf(version, active)
          THEN UNCHANGED << events, retrieval_callers >>
          ELSE IF tool = "search_documents"
              THEN /\ retrieval_callers' = retrieval_callers \cup {active}
                   /\ UNCHANGED events
              ELSE /\ Len(events) < MaxEvents
                   /\ events' = Append(events, tool)
                   /\ UNCHANGED retrieval_callers
    /\ UNCHANGED << version, active, loopVars, memVars, dedupeVars, unitVars >>

\* A specialist's completion holds no tool call: it is done, and the edge from
\* every agent leads back to the supervisor.
AgentCompletes ==
    /\ active \in AgentNames
    /\ active' = Supervisor
    /\ UNCHANGED << version, events, retrieval_callers, loopVars, memVars, dedupeVars, unitVars >>

\* The supervisor's completion holds no tool call: the graph ends.
SupervisorAnswers ==
    /\ active = Supervisor
    /\ active' = "END"
    /\ UNCHANGED << version, events, retrieval_callers, loopVars, memVars, dedupeVars, unitVars >>

\* A completion call raises: graph.invoke raises.
AgentCompletionFails ==
    /\ Speaking
    /\ active' = "failed"
    /\ UNCHANGED << version, events, retrieval_callers, loopVars, memVars, dedupeVars, unitVars >>

AgentsNext ==
    \/ \E role \in AgentNames : SupervisorDelegates(role)
    \/ \E tool \in AllTools : CallsTool(tool)
    \/ AgentCompletes
    \/ SupervisorAnswers
    \/ AgentCompletionFails

-----------------------------------------------------------------------------
(* research-bot-v6: the memory tools on the shared InMemoryStore *)

Reqs == {1, 2}
NoArg == "<no user_id>"
UserArgs == {NoArg, "", "alice", "bob"}

\* line 65
CurrentUserId == "default_user"

\* A research() that always runs as the development user.
ConfigUserIdIgnoresArg(arg) == CurrentUserId

\* line 278: user_id = user_id or self.current_user_id
ConfigUserId(arg) == IF arg \in {NoArg, ""} THEN CurrentUserId ELSE arg

UserIds == { ConfigUserId(a) : a \in UserArgs }

\* A namespace that leaves the user out.
NamespaceShared(user) == << "memories", CurrentUserId >>

\* lines 91 and 102: namespace=("memories", "{user_id}"), filled in from
\* config["configurable"]["user_id"] when the tool runs.
Namespace(user) == << "memories", user >>

Namespaces == { << "memories", u >> : u \in UserIds }
Keys == {"k1", "k2"}
NoItem == [by |-> 0, n |-> 0]

IsPrefix(p, ns) == Len(p) <= Len(ns) /\ SubSeq(ns, 1, Len(p)) = p

\* store.search(namespace_prefix): the items of the namespaces under the prefix.
StoreSearch(st, prefix) ==
    { [ns |-> ns, key |-> k, item |-> st[ns][k]] :
        << ns, k >> \in { x \in Namespaces \X Keys :
                            IsPrefix(prefix, x[1]) /\ st[x[1]][x[2]] # NoItem } }

\* store.put(namespace, key, value) and store.delete(namespace, key)
StorePut(st, ns, k, item) == [st EXCEPT ![ns][k] = item]

AllItems(st) == StoreSearch(st, << >>)

\* uuid.uuid4(): a key no item has or had.
FreshKeys ==
    { k \in Keys :
        /\ \A ns \in Namespaces : memory_store[ns][k] = NoItem
        /\ \A r \in Reqs : \A e \in mem_seen[r].items \cup mem_seen[r].hidden : e.key # k }

\* No request uses the memory store.
MemoryOff ==
    /\ mem_arg = [r \in Reqs |-> NoArg]
    /\ mem_user = [r \in Reqs |-> CurrentUserId]
    /\ mem_at = [r \in Reqs |-> "off"]
    /\ mem_ops = [r \in Reqs |-> 0]
    /\ mem_seen = [r \in Reqs |-> [items |-> {}, hidden |-> {}]]
    /\ memory_store = [ns \in Namespaces |-> [k \in Keys |-> NoItem]]
    /\ messages = [r \in Reqs |-> << >>]
    /\ mem_prior = [r \in Reqs |-> << >>]

\* ResearchBot.__init__: an empty memory_store; no request has started.
MemoryInit ==
    /\ mem_arg = [r \in Reqs |-> NoArg]
    /\ mem_user = [r \in Reqs |-> CurrentUserId]
    /\ mem_at = [r \in Reqs |-> "idle"]
    /\ mem_ops = [r \in Reqs |-> 0]
    /\ mem_seen = [r \in Reqs |-> [items |-> {}, hidden |-> {}]]
    /\ memory_store = [ns \in Namespaces |-> [k \in Keys |-> NoItem]]
    /\ messages = [r \in Reqs |-> << >>]
    /\ mem_prior = [r \in Reqs |-> << >>]

\* The messages of a transcript.
HumanMessage(r) == [type |-> "human", of |-> r, items |-> {}]
ToolMessage(r, found) == [type |-> "tool", of |-> r, items |-> found]
AIMessage(r) == [type |-> "ai", of |-> r, items |-> {}]

\* The transcript of a request that has ended before request r starts.
Earlier(r) ==
    LET ended == { o \in Reqs \ {r} : mem_at[o] = "done" }
    IN  IF ended = {} THEN << >> ELSE messages[CHOOSE o \in ended : TRUE]

\* A graph compiled with a checkpointer and run on one thread: the request
\* starts from the transcript the earlier request has left.
GraphInputAfterCheckpoint(r, earlier) == Append(earlier, HumanMessage(r))

\* line 282: {"messages": [HumanMessage(content=question)]}; the graph is
\* compiled without a checkpointer (line 231), so this is the whole state a
\* request starts with.
GraphInput(r, earlier) == << HumanMessage(r) >>

\* research(question, user_id), lines 278-284: the request runs with its
\* user_id in the config.
MemStart(r, arg) ==
    /\ mem_at[r] = "idle"
    /\ mem_arg' = [mem_arg EXCEPT ![r] = arg]
    /\ mem_user' = [mem_user EXCEPT ![r] = ConfigUserId(arg)]
    /\ mem_at' = [mem_at EXCEPT ![r] = "running"]
    /\ messages' = [messages EXCEPT ![r] = GraphInput(r, Earlier(r))]
    /\ mem_prior' = [mem_prior EXCEPT ![r] = Earlier(r)]
    /\ UNCHANGED << mem_ops, mem_seen, memory_store, loopVars, agentVars, dedupeVars, unitVars >>

CanCallMemoryTool(r, tool) ==
    /\ mem_at[r] = "running"
    /\ mem_ops[r] < MaxMemOps
    /\ tool \in ToolsOf("v6", Supervisor)

\* The supervisor calls search_memory: the items under the request's
\* namespace. (hidden: the items the memory_store held that the search left out.)
MemSearch(r) ==
    /\ CanCallMemoryTool(r, "search_memory")
    /\ LET found == StoreSearch(memory_store, Namespace(mem_user[r]))
       IN  mem_seen' = [mem_seen EXCEPT
                ![r] = [items |-> @.items \cup found,
                        hidden |-> @.hidden \cup (AllItems(memory_store) \ found)]]
    /\ messages' = [messages EXCEPT
            ![r] = Append(@, ToolMessage(r, StoreSearch(memory_store, Namespace(mem_user[r]))))]
    /\ mem_ops' = [mem_ops EXCEPT ![r] = @ + 1]
    /\ UNCHANGED << mem_arg, mem_user, mem_at, memory_store, mem_prior,
                    loopVars, agentVars, dedupeVars, unitVars >>

\* The supervisor calls manage_memory(content, action="create"): a put under a
\* new uuid key.
MemCreate(r) ==
    /\ CanCallMemoryTool(r, "manage_memory")
    /\ \E k \in FreshKeys :
          memory_store' = StorePut(memory_store, Namespace(mem_user[r]), k, [by |-> r, n |-> mem_ops[r] + 1])
    /\ mem_ops' = [mem_ops EXCEPT ![r] = @ + 1]
    /\ UNCHANGED << mem_arg, mem_user, mem_at, mem_seen, messages, mem_prior,
                    loopVars, agentVars, dedupeVars, unitVars >>

\* manage_memory(content, action="update", id=k): an unconditional put on key k.
MemUpdate(r, k) ==
    /\ CanCallMemoryTool(r, "manage_memory")
    /\ memory_store' = StorePut(memory_store, Namespace(mem_user[r]), k, [by |-> r, n |-> mem_ops[r] + 1])
    /\ mem_ops' = [mem_ops EXCEPT ![r] = @ + 1]
    /\ UNCHANGED << mem_arg, mem_user, mem_at, mem_seen, messages, mem_prior,
                    loopVars, agentVars, dedupeVars, unitVars >>

\* manage_memory(action="delete", id=k)
MemDelete(r, k) ==
    /\ CanCallMemoryTool(r, "manage_memory")
    /\ memory_store' = StorePut(memory_store, Namespace(mem_user[r]), k, NoItem)
    /\ mem_ops' = [mem_ops EXCEPT ![r] = @ + 1]
    /\ UNCHANGED << mem_arg, mem_user, mem_at, mem_seen, messages, mem_prior,
                    loopVars, agentVars, dedupeVars, unitVars >>

\* graph.invoke returns (or raises): the request is over.
MemFinish(r) ==
    /\ mem_at[r] = "running"
    /\ mem_at' = [mem_at EXCEPT ![r] = "done"]
    /\ messages' = [messages EXCEPT ![r] = Append(@, AIMessage(r))]
    /\ UNCHANGED << mem_arg, mem_user, mem_ops, mem_seen, memory_store, mem_prior,
                    loopVars, agentVars, dedupeVars, unitVars >>

MemoryNext ==
    \/ \E r \in Reqs, arg \in UserArgs : MemStart(r, arg)
    \/ \E r \in Reqs : MemSearch(r)
    \/ \E r \in Reqs : MemCreate(r)
    \/ \E r \in Reqs, k \in Keys : MemUpdate(r, k)
    \/ \E r \in Reqs, k \in Keys : MemDelete(r, k)
    \/ \E r \in Reqs : MemFinish(r)

-----------------------------------------------------------------------------
(* _planning_node's parsing of the completion, token by token *)

\* The tokens of a completion: the marker, the comma, blank, newline, a word,
\* and the word None.
Marker == "SUB_QUESTIONS:"
Blanks == {" ", "\n"}
PlanTokens == {Marker, ",", " ", "\n", "q", "None"}
PlanTexts == BoundedSeq(PlanTokens, MaxPlanLen)

\* The index of the first tok in t at or after i, or Len(t) + 1.
RECURSIVE IndexFrom(_, _, _)
IndexFrom(t, tok, i) ==
    IF i > Len(t) \/ t[i] = tok THEN i ELSE IndexFrom(t, tok, i + 1)

\* str.split(sep): the pieces between the occurrences of sep.
RECURSIVE SplitOn(_, _)
SplitOn(t, sep) ==
    LET i == IndexFrom(t, sep, 1)
    IN  IF i > Len(t) THEN << t >>
        ELSE << SubSeq(t, 1, i - 1) >> \o SplitOn(SubSeq(t, i + 1, Len(t)), sep)

\* str.strip()
RECURSIVE StripLeft(_)
StripLeft(t) == IF t # << >> /\ t[1] \in Blanks THEN StripLeft(Tail(t)) ELSE t

RECURSIVE StripRight(_)
StripRight(t) ==
    IF t # << >> /\ t[Len(t)] \in Blanks THEN StripRight(SubSeq(t, 1, Len(t) - 1)) ELSE t

StripText(t) == StripRight(StripLeft(t))

\* str.lower()
LowerText(t) == [i \in 1..Len(t) |-> IF t[i] = "None" THEN "none" ELSE t[i]]

\* line 124: [q.strip() for q in sq_line.split(",") if q.strip()]
Segments(sq_line) ==
    SelectSeq([i \in 1..Len(SplitOn(sq_line, ",")) |-> StripText(SplitOn(sq_line, ",")[i])],
              LAMBDA q : q # << >>)

\* A planner's result: << >> for None, << list >> for a list, which may be
\* empty.
NoSubQuestions == << >>
ListOf(segments) == << segments >>

\* lines 120-124
SubQuestions(text) ==
    IF IndexFrom(text, Marker, 1) > Len(text) THEN NoSubQuestions
    ELSE LET sq_line == StripText(SplitOn(SplitOn(text, Marker)[2], "\n")[1])
         IN  IF sq_line # << >> /\ LowerText(sq_line) \notin {<< "none" >>, << "n/a" >>, << >>}
                 THEN ListOf(Segments(sq_line))
                 ELSE NoSubQuestions

PlannerOff ==
    /\ plan_text = << >>
    /\ sub_questions = NoSubQuestions
    /\ planned = "off"

PlannerInit ==
    /\ plan_text \in PlanTexts
    /\ sub_questions = NoSubQuestions
    /\ planned = "no"

ParsePlan ==
    /\ planned = "no"
    /\ sub_questions' = SubQuestions(plan_text)
    /\ planned' = "yes"
    /\ UNCHANGED << plan_text, ix_version, ix_files, ix_store, ix_result,
                    final_messages, answer, loopVars, agentVars, memVars, dedupeVars >>

PlannerNext == ParsePlan

-----------------------------------------------------------------------------
(* index_documents *)

\* A file: whether TextLoader loads it, and how many chunks the splitter
\* makes of it.
FileKinds == [loads : BOOLEAN, chunks : 1..MaxChunks]
FileLists == BoundedSeq(FileKinds, MaxFiles)

\* The chunks of the i-th file.
ChunksOf(files, i) == [c \in 1..files[i].chunks |-> << i, c >>]

\* research-bot-03 loads each file outside any try; v4, v5 and v6 catch the
\* error of a file and print it.
CatchesLoadError(v) == v # "03"

\* The for loop over the files: all_docs when it ends, or that it raised.
RECURSIVE LoadFrom(_, _, _, _)
LoadFrom(v, files, i, all_docs) ==
    IF i > Len(files) THEN [raised |-> FALSE, all_docs |-> all_docs]
    ELSE IF files[i].loads THEN LoadFrom(v, files, i + 1, all_docs \o ChunksOf(files, i))
    ELSE IF CatchesLoadError(v) THEN LoadFrom(v, files, i + 1, all_docs)
    ELSE [raised |-> TRUE, all_docs |-> all_docs]

Range(sq) == { sq[i] : i \in 1..Len(sq) }

IndexOff ==
    /\ ix_version = "v4"
    /\ ix_files = << >>
    /\ ix_store = {}
    /\ ix_result = [kind |-> "off", n |-> 0]

IndexInit ==
    /\ ix_version \in {"03", "v4"}
    /\ ix_files \in FileLists
    /\ ix_store = {}
    /\ ix_result = [kind |-> "pending", n |-> 0]

\* index_documents: the loop, then add_documents when all_docs is not empty;
\* v4 returns len(all_docs), research-bot-03 returns nothing.
IndexDocuments ==
    /\ ix_result.kind = "pending"
    /\ LET loaded == LoadFrom(ix_version, ix_files, 1, << >>)
       IN  IF loaded.raised
               THEN /\ ix_result' = [kind |-> "raised", n |-> 0]
                    /\ UNCHANGED ix_store
               ELSE /\ ix_store' = ix_store \cup Range(loaded.all_docs)
                    /\ ix_result' = IF ix_version = "03"
                                       THEN [kind |-> "none", n |-> 0]
                                       ELSE [kind |-> "count", n |-> Len(loaded.all_docs)]
    /\ UNCHANGED << ix_version, ix_files, plan_text, sub_questions, planned,
                    final_messages, answer, loopVars, agentVars, memVars, dedupeVars >>

IndexNext == IndexDocuments

-----------------------------------------------------------------------------
(* research of research-bot-v5 / v6: the answer taken from the transcript *)

Message(t, c) == [type |-> t, content |-> c]

\* The transcripts a request can end with: the question, what the agents and
\* tools have added, and last the supervisor's message that ended the graph.
\* A completion's content may be empty.
ContentsOf(t) ==
    CASE t = "human" -> {"", Question}
      [] t = "ai"    -> {"", "an answer"}
      [] t = "tool"  -> {"", "a tool result"}

MessagesOf(t) == { Message(t, c) : c \in ContentsOf(t) }

FinalTranscripts ==
    { << h >> \o mid \o << a >> :
        h \in MessagesOf("human"),
        mid \in BoundedSeq(MessagesOf("ai") \cup MessagesOf("tool"), MaxMessages - 2),
        a \in MessagesOf("ai") }

\* v5 line 269, v6 line 292
Fallback(v) ==
    IF v = "v5" THEN "I wasn't able to find relevant information for your query."
                ELSE "Unable to find relevant information."

\* v5 lines 264-267, v6 lines 288-290: the content of the last message, of any
\* type, whose content is not empty.
RECURSIVE LastContent(_, _, _)
LastContent(msgs, i, default) ==
    IF i = 0 THEN default
    ELSE IF msgs[i].content # "" THEN msgs[i].content
    ELSE LastContent(msgs, i - 1, default)

AnswerOff ==
    /\ final_messages = << >>
    /\ answer = None

\* The graph of a request has ended.
AnswerInit ==
    /\ version \in {"v5", "v6"}
    /\ active = "END"
    /\ events = << >>
    /\ retrieval_callers = {}
    /\ final_messages \in FinalTranscripts
    /\ answer = None

ExtractAnswer ==
    /\ active = "END"
    /\ answer = None
    /\ final_messages # << >>
    /\ answer' = LastContent(final_messages, Len(final_messages), Fallback(version))
    /\ UNCHANGED << final_messages, plan_text, sub_questions, planned, ix_version,
                    ix_files, ix_store, ix_result, loopVars, agentVars, memVars, dedupeVars >>

AnswerNext == ExtractAnswer

UnitsOff == PlannerOff /\ IndexOff /\ AnswerOff

\* The self-reflective loop of research-bot-v4.
Init == LoopInit /\ AgentsOff /\ MemoryOff /\ DedupeOff /\ UnitsOff

Spec == Init /\ [][Next]_vars

\* One request in the multi-agent system of research-bot-v5 / v6.
InitAgents == LoopOff /\ AgentsInit /\ MemoryOff /\ DedupeOff /\ UnitsOff

SpecAgents == InitAgents /\ [][AgentsNext]_vars

\* Two requests of research-bot-v6, in any interleaving, on the memory store.
InitMemory == LoopOff /\ AgentsOff /\ MemoryInit /\ DedupeOff /\ UnitsOff

SpecMemory == InitMemory /\ [][MemoryNext]_vars

\* The deduplication of _retrieval_node on any list of sources.
InitDedupe == LoopOff /\ AgentsOff /\ MemoryOff /\ DedupeInit /\ UnitsOff

SpecDedupe == InitDedupe /\ [][DedupeNext]_vars

\* The planner's parsing of any completion.
InitPlanner ==
    LoopOff /\ AgentsOff /\ MemoryOff /\ DedupeOff /\ PlannerInit /\ IndexOff /\ AnswerOff

SpecPlanner == InitPlanner /\ [][PlannerNext]_vars

\* index_documents on any list of files.
InitIndex ==
    LoopOff /\ AgentsOff /\ MemoryOff /\ DedupeOff /\ PlannerOff /\ IndexInit /\ AnswerOff

SpecIndex == InitIndex /\ [][IndexNext]_vars

\* The answer research takes from any final transcript.
InitAnswer ==
    LoopOff /\ MemoryOff /\ DedupeOff /\ PlannerOff /\ IndexOff /\ AnswerInit

SpecAnswer == InitAnswer /\ [][AnswerNext]_vars

-----------------------------------------------------------------------------
(* The self-reflective loop: termination and routing *)

Done == node \in {"end", "returned"}
Looping == node \in {"retrieve", "synthesize", "reflect"}
AllPassesLow == low_passes = passes.reflect

\* An upper bound on the steps a request has left: 0 once research has
\* returned or raised (or graph.invoke has ended), and otherwise the nodes
\* still to run if every remaining reflect pass scores low.
StepsLeft ==
    LET rounds == max_iterations - passes.reflect - 1
    IN  CASE node = "plan"       -> 3 * rounds + 5
          [] node = "retrieve"   -> 3 * rounds + 4
          [] node = "synthesize" -> 3 * rounds + 3
          [] node = "reflect"    -> 3 * rounds + 2
          [] node = "end"        -> IF entry = "research" THEN 1 ELSE 0
          [] OTHER               -> 0

\* C1: with max_iterations = N >= 1 and every reflect pass scoring below 0.6,
\* the loop makes exactly N reflect passes and is then done; there is never an
\* (N+1)-th reflect pass, and the loop cannot run forever: every step lowers
\* StepsLeft, which is never negative, and a step can be taken as long as
\* StepsLeft is positive.
C1_ExactlyNPassesThenDone ==
    /\ [](max_iterations >= 1 /\ passes.reflect <= max_iterations)
    /\ []((Done /\ AllPassesLow) => passes.reflect = max_iterations)
    /\ [](StepsLeft >= 0)
    /\ [][StepsLeft' < StepsLeft]_vars
    /\ []((StepsLeft > 0) => ENABLED Next)

C1_Witness ==
    /\ node = "end"
    /\ AllPassesLow
    /\ passes.reflect = max_iterations
    /\ max_iterations >= 2

\* C2: the loop stops at the first reflect pass that scores 0.6 or more, or at
\* pass max_iterations when none does: while it loops every pass so far was
\* low and the ceiling is not reached; when it is done either the last pass is
\* the only one not low, or all were low and the ceiling is reached. A first
\* pass of 0.6 or more ends the request after one retrieve, one synthesize and
\* one reflect pass.
C2_StopsAtFirstConfidentPass ==
    /\ Looping => (AllPassesLow /\ passes.reflect < max_iterations)
    /\ Done =>
          \/ /\ confidence >= Threshold
             /\ low_passes = passes.reflect - 1
          \/ /\ confidence < Threshold
             /\ AllPassesLow
             /\ passes.reflect = max_iterations
    /\ (Done /\ low_passes = 0) =>
          /\ passes.retrieve = 1
          /\ passes.synthesize = 1
          /\ passes.reflect = 1

C2_Witness ==
    /\ node = "end"
    /\ low_passes = 0
    /\ passes.reflect = 1
    /\ confidence >= Threshold
    /\ max_iterations > 1

\* C3: a reflect pass leads to END when iteration >= max_iterations, otherwise
\* to retrieve when confidence < 0.6 (strictly), otherwise to END; it never
\* leads to plan. The only other way out of reflect is the failure of its
\* completion call.
C3_TransitionsOutOfReflect ==
    [][ /\ (passes'.reflect # passes.reflect) =>
              /\ node = "reflect"
              /\ node' = IF iteration' >= max_iterations THEN "end"
                         ELSE IF confidence' < ThresholdTenths * (Scale \div 10) THEN "retrieve"
                         ELSE "end"
        /\ (node = "reflect" /\ passes'.reflect = passes.reflect) =>
              node' \in {"reflect", "failed"}
      ]_vars

C3_Witness ==
    /\ node = "end"
    /\ confidence = ThresholdTenths * (Scale \div 10)
    /\ iteration < max_iterations

\* C4: when the loop is done, 1 <= iteration <= max_iterations.
C4_IterationWithinCeilingAtDone ==
    Done => (1 <= iteration /\ iteration <= max_iterations)

C4_Witness ==
    /\ node = "returned"
    /\ iteration = max_iterations
    /\ iteration > 1

\* C5: confidence is absent before the first reflect pass and afterwards a
\* value in [0.0, 1.0], whatever the score text is (a numeral above one, a
\* negative one, no number at all).
C5_ConfidenceInUnitInterval ==
    /\ (passes.reflect = 0) => confidence = None
    /\ (passes.reflect > 0) => (confidence \in Int /\ 0 <= confidence /\ confidence <= Scale)

C5_Witness ==
    /\ score_kind = "above_one"
    /\ confidence = Scale
    /\ passes.reflect > 0

\* C6: what research returns is the findings that the last reflect pass
\* evaluated: END is entered only from reflect, and no synthesize pass runs
\* after the last reflect pass.
C6_ReturnsReflectedFindings ==
    /\ [](node = "returned" =>
            /\ returned = findings
            /\ returned = reflected
            /\ returned # None
            /\ passes.reflect >= 1
            /\ passes.synthesize = passes.reflect)
    /\ [][(node' = "end" /\ node # "end") => node = "reflect"]_vars

C6_Witness ==
    /\ node = "returned"
    /\ passes.reflect >= 2
    /\ returned \in SynthOutputs

-----------------------------------------------------------------------------
(* The self-reflective loop: the nodes' handling of empty and failed calls *)

\* C11: a step of synthesize on empty sources yields the fixed apology and
\* makes no call to the completion capability; a step of synthesize on
\* non-empty sources makes exactly one call (which returns the findings, or
\* raises).
C11_SynthesizeShortCircuit ==
    [][ (node = "synthesize") =>
            IF sources = << >>
                THEN /\ passes'.llm = passes.llm
                     /\ passes'.synthesize = passes.synthesize + 1
                     /\ findings' = "I couldn't find any relevant information in my knowledge base ..."
                     /\ node' = "reflect"
                ELSE /\ passes'.llm = passes.llm + 1
                     /\ node' \in {"reflect", "failed"}
      ]_vars

\* synthesize has run once on empty sources: the only completion call so far
\* is the planner's.
C11_Witness ==
    /\ node = "reflect"
    /\ sources = << >>
    /\ passes.synthesize = 1
    /\ passes.llm = 1
    /\ findings = Apology

\* C12: when a capability call fails, the request fails: a retrieve pass in
\* which a search raised is not followed by a later stage, and a request that
\* has failed has returned nothing.
C12_FailurePropagates ==
    /\ (failed_queries # {}) => (node = "failed")
    /\ (node = "failed") => (returned = None)

\* The queries of the last retrieve pass whose search returned.
SucceededQueries ==
    { j \in 1..Len(QueriesOf(research_plan)) : j \notin failed_queries }

HitsOf(j) == Search(kb, QueriesOf(research_plan)[j])

\* C13: a query whose search fails is skipped and the remaining queries are
\* still searched: after a retrieve pass every source is a hit of a query that
\* succeeded, every hit of every query that succeeded is in sources (itself,
\* or the earlier source with the same dedup key), and the pass is followed by
\* synthesize.
C13_FailedQuerySkipped ==
    /\ []( (node = "synthesize") =>
            /\ \A i \in 1..Len(sources) :
                  \E j \in SucceededQueries :
                      /\ sources[i].query = QueriesOf(research_plan)[j]
                      /\ \E h \in 1..Len(HitsOf(j)) : HitsOf(j)[h].content = sources[i].content
            /\ \A j \in SucceededQueries : \A h \in 1..Len(HitsOf(j)) :
                  \E i \in 1..Len(sources) :
                      sources[i].content.head = HitsOf(j)[h].content.head )
    /\ [][ (node = "retrieve") => (node' = "synthesize") ]_vars

\* The first query's search has raised, a later one has returned hits, and
\* synthesize is next.
C13_Witness ==
    /\ node = "synthesize"
    /\ 1 \in failed_queries
    /\ \E j \in SucceededQueries : j > 1 /\ HitsOf(j) # << >>
    /\ sources # << >>

\* C14: a reflect pass whose score text holds no token of the pattern sets
\* confidence to 0.7, increments iteration and raises nothing.
C14_UnparseableScoreDefaults ==
    [][ (passes'.reflect # passes.reflect /\ score_matched' = "no_token") =>
            /\ confidence' * 10 = 7 * Scale
            /\ iteration' = iteration + 1
            /\ node' \in {"retrieve", "end"}
      ]_vars

C14_Witness ==
    /\ score_matched = "no_token"
    /\ confidence * 10 = 7 * Scale
    /\ iteration = 2
    /\ node = "end"

\* C15: deduplication is idempotent: applied to the list it has built from
\* any list of sources, it builds that same list again.
C15_DedupeIdempotent ==
    [][ (dedupe_passes = 1) => (unique_sources' = unique_sources) ]_vars

\* The deduplication has run twice on a list of three sources with a single
\* dedup key between them.
C15_Witness ==
    /\ dedupe_passes = 2
    /\ Len(all_sources) >= 3
    /\ Len(unique_sources) = 1

\* The positions of S that hold the first occurrence of their dedup key.
FirstOccurrences(S) ==
    { i \in 1..Len(S) :
        \A j \in 1..(i - 1) : S[j].content.head # S[i].content.head }

\* The subsequence of S at the positions I, in the order of S.
SubsequenceAt(S, I) ==
    [k \in 1..Cardinality(I) |->
        S[CHOOSE i \in I : Cardinality({ j \in I : j <= i }) = k]]

\* C27: for every list of sources S, the deduplication yields the subsequence
\* of S made of the first occurrence of each dedup key, in input order.
C27_DedupeKeepsFirstOccurrences ==
    (dedupe_passes >= 1) =>
        unique_sources = SubsequenceAt(all_sources, FirstOccurrences(all_sources))

\* One pass over three sources of which the third has the key of the first
\* and another content: the first two are kept.
C27_Witness ==
    /\ dedupe_passes = 1
    /\ Len(all_sources) = 3
    /\ all_sources[1].content.head = all_sources[3].content.head
    /\ all_sources[1].content # all_sources[3].content
    /\ unique_sources = SubSeq(all_sources, 1, 2)

\* C16: in every state of a request, no two entries of sources have the same
\* dedup key (the same first 200 characters of content).
C16_SourcesHaveDistinctKeys ==
    \A i, j \in 1..Len(sources) :
        (i # j) => (sources[i].content.head # sources[j].content.head)

\* A retrieve pass has found both documents that share their first 200
\* characters, and sources holds one of them beside another document.
C16_Witness ==
    /\ passes.retrieve >= 1
    /\ kb = Docs
    /\ failed_queries = {}
    /\ Len(sources) = 2

\* C17: the ceiling of a request made through research is the max_iterations
\* its caller supplies, and 3 when the caller supplies none.
C17_CeilingOverridable ==
    (entry = "research") =>
        /\ max_iterations =
              (IF max_iterations_arg = << >> THEN 3 ELSE max_iterations_arg[1])
        /\ (passes.plan = 0) => (node = "plan")

\* C19: when the loop is done, research returns the findings of the state at
\* that moment, and what it returns is never absent: findings has been
\* produced whenever the loop is done, so the fallback string is never needed.
C19_ReturnsFindingsNeverAbsent ==
    /\ (node = "end") => (findings # None /\ passes.synthesize >= 1)
    /\ (node = "returned") =>
          /\ returned = findings
          /\ returned # None
          /\ returned # "I wasn't able to find relevant information for your query."

\* research has returned the apology that synthesize produced on empty
\* sources.
C19_Witness ==
    /\ node = "returned"
    /\ sources = << >>
    /\ returned = Apology

-----------------------------------------------------------------------------
(* The self-reflective loop: order of the stages and what each one writes *)

\* C23: plan is where a request starts and runs once; no step after it changes
\* the plan, so every retrieve pass reads the plan of the first; and nothing
\* runs after END: the only step left is the return of research.
C23_PlanOnceDoneTerminal ==
    /\ [](passes.plan <= 1)
    /\ []((node = "plan") =>
            (passes.plan = 0 /\ passes.retrieve = 0 /\ passes.synthesize = 0
                /\ passes.reflect = 0))
    /\ []((passes.retrieve > 0) => (passes.plan = 1))
    /\ [][ /\ (research_plan' # research_plan) => (node = "plan")
           /\ (node' = "plan") => (node = "plan")
           /\ (node = "end") => (node' = "returned" /\ passes' = passes /\ Result' = Result)
           /\ (node = "returned") => FALSE
         ]_vars

\* The second retrieve pass of a request with a plan of two sub-questions is
\* about to run.
C23_Witness ==
    /\ node = "retrieve"
    /\ passes.plan = 1
    /\ passes.reflect = 1
    /\ research_plan # None
    /\ Len(research_plan) = 2

\* C24: the stages run one at a time in the order plan, retrieve, synthesize,
\* reflect: each step runs the one stage the request is at and leads to the
\* next in order (or to the failure of the request), and in every iteration
\* retrieve, synthesize and reflect each run once, none skipped.
C24_StagesInOrder ==
    /\ [][ /\ (node = "plan") =>
                  (node' \in {"retrieve", "failed"} /\ passes'.retrieve = passes.retrieve)
           /\ (node = "retrieve") =>
                  (node' = "synthesize" /\ passes' = [passes EXCEPT !.retrieve = @ + 1])
           /\ (node = "synthesize") =>
                  (node' \in {"reflect", "failed"} /\ passes'.retrieve = passes.retrieve
                      /\ passes'.reflect = passes.reflect)
           /\ (node = "reflect") =>
                  (node' \in {"retrieve", "end", "failed"}
                      /\ passes'.retrieve = passes.retrieve
                      /\ passes'.synthesize = passes.synthesize)
         ]_vars
    /\ []((node \in {"retrieve", "end", "returned"}) =>
            (passes.plan = 1 /\ passes.retrieve = passes.reflect
                /\ passes.synthesize = passes.reflect))
    /\ []((node = "synthesize") =>
            (passes.retrieve = passes.reflect + 1 /\ passes.synthesize = passes.reflect))
    /\ []((node = "reflect") =>
            (passes.retrieve = passes.reflect + 1 /\ passes.synthesize = passes.reflect + 1))

\* The reflect pass of the second iteration is about to run.
C24_Witness ==
    /\ node = "reflect"
    /\ passes.reflect = 1
    /\ passes.synthesize = 2

\* C25: a retrieve pass replaces sources by the deduplicated hits of that
\* pass: every source it leaves is a hit of a query that succeeded in this
\* pass, whatever sources held before; and it leaves plan, findings,
\* confidence, iteration and max_iterations as they were.
C25_RetrieveReplacesSources ==
    [][ (node = "retrieve") =>
            /\ \A i \in 1..Len(sources') :
                  \E j \in 1..Len(QueriesOf(research_plan)) :
                      /\ j \notin failed_queries'
                      /\ sources'[i].query = QueriesOf(research_plan)[j]
                      /\ \E h \in 1..Len(HitsOf(j)) : HitsOf(j)[h].content = sources'[i].content
            /\ Len(sources') <= Cardinality(kb)
            /\ UNCHANGED << research_plan, findings, confidence, iteration, max_iterations >>
      ]_vars

\* The first pass found sources (synthesize produced findings from them); in
\* the second pass every search failed and sources is empty.
C25_Witness ==
    /\ node = "synthesize"
    /\ passes.retrieve = 2
    /\ findings \in SynthOutputs
    /\ sources = << >>

\* The position (query, rank) of the first hit with the dedup key of a
\* source, among the hits of the queries that succeeded in the last pass.
HitPositions(key) ==
    { << j, h >> \in SucceededQueries \X (1..TopK) :
          h <= Len(HitsOf(j)) /\ HitsOf(j)[h].content.head = key }

Before(a, b) == a[1] < b[1] \/ (a[1] = b[1] /\ a[2] < b[2])

FirstHit(key) ==
    CHOOSE a \in HitPositions(key) : \A b \in HitPositions(key) : a = b \/ Before(a, b)

\* C28: the hits are listed in query order and, within a query, in rank
\* order, each tagged with the query that produced it; a duplicate that is
\* dropped leaves the first-seen source and its query in place. So every
\* source is the first hit with its key in that order, with that hit's query,
\* and the sources follow each other in that order.
C28_SourcesInQueryThenRankOrder ==
    (passes.retrieve >= 1) =>
        /\ \A i \in 1..Len(sources) :
              /\ HitPositions(sources[i].content.head) # {}
              /\ LET a == FirstHit(sources[i].content.head)
                 IN  /\ sources[i].query = QueriesOf(research_plan)[a[1]]
                     /\ sources[i].content = HitsOf(a[1])[a[2]].content
                     /\ sources[i].metadata = HitsOf(a[1])[a[2]].metadata
        /\ \A i, k \in 1..Len(sources) :
              (i < k) => Before(FirstHit(sources[i].content.head),
                                FirstHit(sources[k].content.head))

\* Both sub-questions were searched, the second found only documents whose
\* key the first had found, and both sources carry the first sub-question.
C28_Witness ==
    /\ node = "synthesize"
    /\ research_plan # None
    /\ Len(research_plan) = 2
    /\ failed_queries = {}
    /\ Len(sources) = 2
    /\ \A i \in 1..Len(sources) : sources[i].query = research_plan[1]

\* C29: iteration is the number of reflect passes made: 0 at the start, one
\* more after each reflect pass, and changed by no other stage; no stage
\* changes max_iterations.
C29_IterationCountsReflectPasses ==
    /\ [](iteration = passes.reflect)
    /\ []((passes.plan = 0) => (iteration = 0))
    /\ [][ /\ (node = "reflect" /\ node' # "failed") => (iteration' = iteration + 1)
           /\ (node # "reflect" \/ node' = "failed") => (iteration' = iteration)
           /\ max_iterations' = max_iterations
         ]_vars

C29_Witness ==
    /\ node = "synthesize"
    /\ iteration = 2
    /\ passes.reflect = 2

-----------------------------------------------------------------------------
(* The multi-agent system: delegation order and capabilities *)

\* The roles the supervisor has handed the request to, in order.
Delegations == SelectSeq(events, LAMBDA e : e \in AgentNames)

\* C7: the specialists are invoked in the order query_analyst,
\* document_researcher, report_writer, whatever the supervisor's completions
\* are: the handoffs so far are always a prefix of that order, and a request
\* that has ended has made all three.
C7_FixedDelegationOrder ==
    /\ IsPrefix(Delegations, Agents)
    /\ (active = "END") => (Delegations = Agents)

\* C8: every retrieval call is issued by document_researcher.
C8_OnlyResearcherRetrieves ==
    retrieval_callers \subseteq {"document_researcher"}

C8_Witness ==
    /\ active = "END"
    /\ Delegations = Agents
    /\ retrieval_callers = {"document_researcher"}

\* C18: in a request of research-bot-v6 the memory search comes before the
\* first handoff and the memory save after the writer has completed: no
\* search_memory call follows a handoff, and every manage_memory call follows
\* the handoff to report_writer and is followed by no handoff.
C18_MemoryAroundThePipeline ==
    \A i \in 1..Len(events) :
        /\ (events[i] = "search_memory") =>
              \A j \in 1..(i - 1) : events[j] \notin AgentNames
        /\ (events[i] = "manage_memory") =>
              /\ \E j \in 1..(i - 1) : events[j] = "report_writer"
              /\ \A j \in (i + 1)..Len(events) : events[j] \notin AgentNames

-----------------------------------------------------------------------------
(* The memory store: isolation between users, and concurrent writers *)

Started(r) == mem_at[r] \in {"running", "done"}

\* C9: a memory item written in a request with user_id A is never returned by
\* a memory search of a request with another user_id: every item is stored
\* under ("memories", user_id of the request that wrote it), and every item a
\* search returns comes from ("memories", user_id of the searching request)
\* and was written under that same user_id. The user_id of a request is the
\* one it runs with: the one supplied, or default_user when none (or an empty
\* one) is supplied.
C9_MemoryIsolation ==
    /\ \A ns \in Namespaces, k \in Keys :
          memory_store[ns][k] # NoItem =>
              ns = << "memories", mem_user[memory_store[ns][k].by] >>
    /\ \A r \in Reqs : \A e \in mem_seen[r].items :
          /\ e.ns = << "memories", mem_user[r] >>
          /\ mem_user[e.item.by] = mem_user[r]
    /\ \A r \in Reqs : \A e \in mem_seen[r].hidden :
          mem_user[e.item.by] # mem_user[r]
    /\ \A r \in Reqs : Started(r) =>
          mem_user[r] = (IF mem_arg[r] \in {NoArg, ""} THEN "default_user" ELSE mem_arg[r])

\* Request 2 (bob) has searched while the store held an item of request 1
\* (alice): the search left that item out and returned bob's own.
C9_Witness ==
    /\ mem_user[1] = "alice"
    /\ mem_user[2] = "bob"
    /\ \E e \in mem_seen[2].hidden : e.item.by = 1
    /\ \E e \in mem_seen[2].items : e.item.by = 2

\* C20: no role retains state across requests: a request starts with a
\* transcript that holds its own question and nothing else, whatever an
\* earlier request has left, and all that reaches its transcript from another
\* request are the items a memory search returns, which that request saved
\* under the same namespace.
C20_NoStateAcrossRequests ==
    /\ [][ \A r \in Reqs :
              (mem_at[r] = "idle" /\ mem_at'[r] = "running") =>
                  messages'[r] = << [type |-> "human", of |-> r, items |-> {}] >> ]_vars
    /\ [](\A r \in Reqs : \A i \in 1..Len(messages[r]) :
              /\ messages[r][i].of = r
              /\ (i = 1) = (messages[r][i].type = "human")
              /\ \A e \in messages[r][i].items :
                    /\ e.ns = << "memories", mem_user[r] >>
                    /\ mem_user[e.item.by] = mem_user[r])

\* Request 2 has started after request 1 had ended with a transcript of its
\* own, and a memory search has brought it an item that request 1 saved.
C20_Witness ==
    /\ Len(mem_prior[2]) >= 2
    /\ mem_at[1] = "done"
    /\ messages[2][1] = HumanMessage(2)
    /\ \E i \in 2..Len(messages[2]) : \E e \in messages[2][i].items : e.item.by = 1

\* C21: a request whose caller supplies no user_id runs as default_user, with
\* the namespace ("memories", "default_user"); a request whose caller supplies
\* a user_id runs with exactly that user_id.
C21_UserIdDefaultsOnlyWhenAbsent ==
    \A r \in Reqs : Started(r) =>
        mem_user[r] = (IF mem_arg[r] = NoArg THEN "default_user" ELSE mem_arg[r])

\* The request that makes a memory tool call in a step.
Caller == CHOOSE r \in Reqs : mem_ops'[r] # mem_ops[r]

HasRead(r, ns, k) == \E e \in mem_seen[r].items : e.ns = ns /\ e.key = k

\* C10: concurrent requests with the same user_id serialize their memory
\* writes, so that no write of one is lost to the other: a request that has
\* read an item and then writes it (update or delete) finds the version it
\* read, or one of its own, and not a version the other request has written
\* in between.
C10_NoLostUpdate ==
    [][ \A ns \in Namespaces, k \in Keys :
            ( /\ memory_store'[ns][k] # memory_store[ns][k]
              /\ memory_store[ns][k] # NoItem
              /\ memory_store[ns][k].by # Caller
              /\ HasRead(Caller, ns, k) )
            => [ns |-> ns, key |-> k, item |-> memory_store[ns][k]] \in mem_seen[Caller].items
      ]_vars

\* The chunks of the files that load, whatever happens to the other files.
LoadableChunks ==
    UNION { Range(ChunksOf(ix_files, i)) : i \in { j \in 1..Len(ix_files) : ix_files[j].loads } }

\* C22: in index_documents a file that fails to load is skipped and does not
\* abort the batch: every other matching file is still loaded and indexed, and
\* the returned count is the number of chunks of the files that loaded.
C22_FailedFileIsSkipped ==
    ( /\ ix_result.kind \notin {"off", "pending"}
      /\ \E i \in 1..Len(ix_files) : ~ix_files[i].loads )
    => /\ ix_result = [kind |-> "count", n |-> Cardinality(LoadableChunks)]
       /\ ix_store = LoadableChunks

\* The rest of the marker's line: what follows the first marker, up to the end
\* of its line.
RestOfMarkerLine(text) ==
    LET m == IndexFrom(text, Marker, 1)
        e == IndexFrom(text, "\n", m + 1)
    IN  SubSeq(text, m + 1, e - 1)

\* The plan the sentence describes for a completion.
ClaimedPlan(text) ==
    IF \A i \in 1..Len(text) : text[i] # Marker THEN NoSubQuestions
    ELSE LET value == StripText(RestOfMarkerLine(text))
         IN  IF LowerText(value) \in {<< >>, << "none" >>, << "n/a" >>} THEN NoSubQuestions
             ELSE ListOf(Segments(value))

\* C26: the planner's result is a function of the completion text only: absent
\* when the marker SUB_QUESTIONS: is missing or when the rest of the marker's
\* line, trimmed, is empty or equals none or n/a case-insensitively; otherwise
\* the list of the comma-separated segments of that line, each trimmed, with
\* empty segments dropped and order preserved, and with no limit on the number
\* of entries.
C26_PlanIsFunctionOfMarkerLine ==
    planned = "yes" => sub_questions = ClaimedPlan(plan_text)

\* The position of the last AI message of a transcript, 0 when it has none.
RECURSIVE LastAI(_, _)
LastAI(msgs, i) ==
    IF i = 0 \/ msgs[i].type = "ai" THEN i ELSE LastAI(msgs, i - 1)

\* C30: in multi-agent mode research returns the content of the last AI
\* message of the final transcript, and the fixed fallback string when the
\* transcript has no such message; it never returns the user's own question
\* as the answer.
C30_AnswerIsLastAIMessage ==
    answer # None =>
        LET i == LastAI(final_messages, Len(final_messages))
        IN  /\ answer = (IF i = 0 THEN Fallback(version) ELSE final_messages[i].content)
            /\ answer # Question

\* C31: a reflect pass whose score text holds no token of the pattern never
\* causes a retry: its confidence is the default 0.7, which is not below the
\* threshold 0.6, and the loop goes from that pass to END whatever the
\* iteration count.
C31_UnparseableScoreNeverRetries ==
    score_matched = "no_token" =>
        /\ confidence = DefaultConfidence
        /\ confidence >= Threshold
        /\ node \in {"end", "returned"}

\* The pass has ended the loop below the ceiling, where a low score would have
\* retried.
C31_Witness ==
    /\ score_matched = "no_token"
    /\ node = "end"
    /\ iteration = 1
    /\ iteration < max_iterations

\* C32: every retrieve pass issues at least one search: the queries are the
\* plan when the plan is a non-empty list, and the single original query when
\* the plan is absent or is an empty list (the planner's result for a marker
\* line of commas and whitespace).
C32_RetrievalSearchesAtLeastOnce ==
    passes.retrieve > 0 =>
        /\ Len(searched) >= 1
        /\ (research_plan = None \/ research_plan = << >>) => searched = << Question >>
        /\ (research_plan # None /\ research_plan # << >>) => searched = research_plan

\* The planner has returned an empty list and the pass has searched the
\* question.
C32_Witness ==
    /\ passes.retrieve > 0
    /\ research_plan # None
    /\ research_plan = << >>
    /\ searched = << Question >>
    /\ kb # {}
    /\ sources # << >>

\* C33: the empty-sources short-circuit of synthesize does not skip
\* reflection: while every retrieve pass has returned no sources, each
\* iteration runs one reflect pass, on the fixed apology, the loop can retry up
\* to max_iterations times, and the request issues exactly 1 + (number of
\* reflect passes) completion calls.
C33_EmptySourcesStillReflect ==
    ~found_sources =>
        /\ passes.reflect > 0 => reflected = Apology
        /\ node \in {"retrieve", "end", "returned"} =>
              /\ passes.synthesize = passes.retrieve
              /\ passes.reflect = passes.synthesize
              /\ passes.reflect = iteration
        /\ passes.reflect <= max_iterations
        /\ node \in {"retrieve", "synthesize", "reflect", "end", "returned"} =>
              passes.llm = 1 + passes.reflect

\* The request has retried up to the ceiling without ever finding a source.
C33_Witness ==
    /\ ~found_sources
    /\ node = "returned"
    /\ max_iterations > 1
    /\ passes.reflect = max_iterations
    /\ passes.retrieve = max_iterations
    /\ reflected = Apology
    /\ returned = Apology
    /\ passes.llm = 1 + max_iterations

\* C34: every retry pass issues the same queries in the same order as the
\* first retrieve pass of the request; hence, when the searches return what
\* they returned in the first pass (the knowledge base does not change during
\* a request, and the same searches raise), sources after the pass is
\* identical to sources after the first one.
C34_RetrySearchesSameQueries ==
    passes.retrieve > 0 =>
        /\ searched = first_retrieval.queries
        /\ failed_queries = first_retrieval.failed => sources = first_retrieval.sources

\* A retry pass over a plan of several queries has returned the sources of the
\* first pass.
C34_Witness ==
    /\ passes.retrieve >= 2
    /\ Len(searched) >= 2
    /\ failed_queries = first_retrieval.failed
    /\ sources # << >>
    /\ sources = first_retrieval.sources

====
